---- MODULE Spec2Model ----
(***************************************************************************)
(* Model of the Power BI report uploader: one orchestration run, started   *)
(* either through the HTTP endpoint (main.py, upload_report) or through    *)
(* the command line (upload_report.py, main).  The identity provider, the  *)
(* object store, the import endpoint and the listing endpoint are the      *)
(* environment: every response they can give is drawn nondeterministically.*)
(*                                                                         *)
(* Strings that the code compares case-insensitively (report names) are    *)
(* sequences of ASCII codes, so that str.lower() is computed, not assumed. *)
(* Report ids are non-empty strings (the platform issues GUIDs), so the    *)
(* truth test `if report_id` is the test `report_id is not None`.          *)
(* Transport-level exceptions of requests.get / requests.post (no response *)
(* at all) are outside the model: every call gets a response.              *)
(*                                                                         *)
(* Spec is one run against an environment that may answer anything.        *)
(* TwoRunsSpec is two runs against one workspace: the import endpoint      *)
(* takes imports in and the platform processes them later, the listing     *)
(* endpoint shows the workspace as it is, and the processor may pass from  *)
(* one run to the other between any two steps.                             *)
(***************************************************************************)
EXTENDS Integers, Sequences, FiniteSets, TLC

VARIABLES
    entry,        \* "api" (main.py) or "cli" (upload_report.py)
    env,          \* the set of configuration variables that are set
    report_name,  \* the requested report name
    pc,           \* position of the run
    access_token, \* the bearer token held by the run, or None
    pbix_bytes,   \* the artifact held by the run, or None
    attempt,      \* number of completed iterations of the polling loop
    report_id,    \* value returned by fetch_report_id, or None
    outcome,      \* what the run hands to its caller
    calls,        \* history: external calls and sleeps, in order
    tokenResult,  \* history: the identity provider's response
    storeResult,  \* history: the object store's response
    importResp,   \* history: the import endpoint's response
    lastResp,     \* history: the latest listing response
    namesListed,  \* history: every report name a parsed listing has shown
    cur,          \* which run the variables above belong to: 1 or 2
    saved,        \* the other run: a record of the fifteen variables above
    switches,     \* how often the processor has passed from one run to the other
    overlapped,   \* history: a run was left while it was under way
    platformOn,   \* TRUE when the import and listing endpoints are one workspace
    workspace,    \* the workspace: its reports, in listing order
    pending,      \* imports the platform has accepted and not yet processed
    received      \* history: the query of every import request, as received

vars == <<entry, env, report_name, pc, access_token, pbix_bytes, attempt,
          report_id, outcome, calls, tokenResult, storeResult, importResp,
          lastResp, namesListed, cur, saved, switches, overlapped, platformOn,
          workspace, pending, received>>

\* what lies outside the running run
others == <<cur, saved, switches, overlapped, platformOn, workspace, pending, received>>

None == "None"

----------------------------------------------------------------------------
(* Bounds and program constants *)

MaxReports == 2

\* how often, at most, the processor passes from one run to the other
MaxSwitches == 2

MaxAttempts_Nine == 8 + 1
MaxAttempts == 8

SleepSeconds_Four == 3 + 1
SleepSeconds == 3

----------------------------------------------------------------------------
(* Configuration *)

AuthVars  == {"TENANT_ID", "CLIENT_ID", "CLIENT_SECRET"}
StoreVars == {"AZURE_STORAGE_CONNECTION_STRING", "BLOB_CONTAINER", "EMPTY_PBIX_NAME"}
RequiredVars == AuthVars \cup StoreVars

\* upload_report.py: [v for v in [...] if not os.getenv(v)]
Missing(e) == RequiredVars \ e

----------------------------------------------------------------------------
(* Report names: sequences of ASCII codes *)

Name_SA == <<83, 65>>
Name_Sa == <<83, 97>>
Name_sa == <<115, 97>>
Name_Sb == <<83, 98>>

Name_SHash == <<83, 35, 97>>

RequestNames == {Name_SA, Name_Sa}
\* the names that two runs against one workspace upload: "SA" and "S#a"
UploadNames  == {Name_SA, Name_SHash}
ListedNames  == {Name_Sa, Name_sa, Name_Sb}
ReportIds    == {"r1", "r2"}

\* the id of the report that the import of run `by` becomes
ImportedId(by) == <<"n1", "n2">>[by]

\* str.lower() on ASCII: 'A'..'Z' map to 'a'..'z', everything else is kept
LowerChar(c) == IF c >= 65 /\ c <= 90 THEN c + 32 ELSE c
Lower(s) == [i \in DOMAIN s |-> LowerChar(s[i])]

NameMatches_CaseSensitive(report, name) == report.name = name
\* report["name"].lower() == report_name.lower()
NameMatches(report, name) == Lower(report.name) = Lower(name)

MinOf(S) == CHOOSE x \in S : \A y \in S : x <= y

MaxOf(S) == CHOOSE x \in S : \A y \in S : x >= y

ScanReports_Last(value, name) ==
    LET hits == {i \in DOMAIN value : NameMatches(value[i], name)}
    IN  IF hits = {} THEN None ELSE value[MaxOf(hits)].id
\* for report in resp.json().get("value", []): if <match>: return report["id"]
ScanReports(value, name) ==
    LET hits == {i \in DOMAIN value : NameMatches(value[i], name)}
    IN  IF hits = {} THEN None ELSE value[MinOf(hits)].id

----------------------------------------------------------------------------
(* Responses of the environment *)

BoundedSeq(S, n) == UNION {[1..k -> S] : k \in 0..n}

Reports  == [name : ListedNames, id : ReportIds]
Listings == BoundedSeq(Reports, MaxReports)

\* a listing response: resp.ok, and what resp.json() gives
\*   "error"    non-success status, body not read
\*   "not_json" success status, resp.json() raises
\*   "no_value" success status, a JSON object without "value"
\*   "listing"  success status, a JSON object with a "value" array
ListingResponses ==
    {[ok |-> FALSE, body |-> "error",    value |-> <<>>],
     [ok |-> TRUE,  body |-> "not_json", value |-> <<>>],
     [ok |-> TRUE,  body |-> "no_value", value |-> <<>>]}
    \cup {[ok |-> TRUE, body |-> "listing", value |-> v] : v \in Listings}

NoListing == [ok |-> FALSE, body |-> "none", value |-> <<>>]

\* resp.json().get("value", [])
ValueOf(resp) == IF resp.body = "listing" THEN resp.value ELSE <<>>

Tokens       == {"tokA", "tokB"}
Descriptions == {"invalid_client", "unauthorized_client", None}
TokenResults ==
    {[has_token |-> TRUE, access_token |-> t, error_description |-> None] : t \in Tokens}
    \cup {[has_token |-> FALSE, access_token |-> None, error_description |-> d] :
             d \in Descriptions}
NoTokenResult == [has_token |-> FALSE, access_token |-> None, error_description |-> "no_response"]

Artifacts   == {"pbix0"}
StoreErrors == {"ResourceNotFound", "ServiceRequestError", "AuthorizationFailure"}
StoreResults ==
    {[ok |-> TRUE, data |-> a, error |-> None] : a \in Artifacts}
    \cup {[ok |-> FALSE, data |-> None, error |-> e] : e \in StoreErrors}
NoStoreResult == [ok |-> FALSE, data |-> None, error |-> "no_response"]

StatusCodes  == {200, 201, 202, 204, 400}
Bodies       == {"", "Invalid dataset"}
ImportResponses == [status_code : StatusCodes, text : Bodies]
NoImportResp == [status_code |-> 0, text |-> None]

\* "access_token" not in result
HasAccessToken_Always(result) == TRUE
HasAccessToken(result) == result.has_token

\* if resp.ok: ... resp.json() -- the one place of the polling loop that can raise
ListingRaises_OnError(resp) == ~resp.ok \/ resp.body = "not_json"
ListingRaises(resp) == resp.ok /\ resp.body = "not_json"

AcceptedCodes_Only202 == {202}
\* resp.status_code not in (200, 201, 202)
AcceptedCodes == {200, 201, 202}

----------------------------------------------------------------------------
(* What a run hands to its caller *)

Result(kind, stage, code, detail, rid) ==
    [kind |-> kind, stage |-> stage, code |-> code, detail |-> detail, report_id |-> rid]

NoOutcome == Result("none", "none", 0, <<>>, None)

\* an exception nobody catches: the framework's bare 500 / a traceback
Uncaught(stage, exc) == Result("Uncaught", stage, 0, <<exc>>, None)

TypeOK ==
    /\ entry \in {"api", "cli"}
    /\ env \subseteq RequiredVars
    /\ report_name \in RequestNames \cup UploadNames
    /\ pc \in {"validate", "token", "download", "upload", "sleep", "get", "return", "done"}
    /\ access_token \in Tokens \cup {None}
    /\ pbix_bytes \in Artifacts \cup {None}
    /\ attempt \in 0..MaxAttempts
    /\ report_id \in ReportIds \cup {ImportedId(1), ImportedId(2), None}
    /\ cur \in {1, 2}
    /\ switches \in 0..MaxSwitches
    /\ overlapped \in BOOLEAN
    /\ platformOn \in BOOLEAN
    /\ Len(workspace) <= 3
    /\ Len(pending) <= 2
    /\ Len(received) <= 2

\* a run that has not moved yet, as a record of its variables
NewRun(e, v, n) ==
    [entry |-> e, env |-> v, report_name |-> n,
     pc |-> IF e = "cli" THEN "validate" ELSE "token",
     access_token |-> None, pbix_bytes |-> None, attempt |-> 0,
     report_id |-> None, outcome |-> NoOutcome, calls |-> <<>>,
     tokenResult |-> NoTokenResult, storeResult |-> NoStoreResult,
     importResp |-> NoImportResp, lastResp |-> NoListing, namesListed |-> {}]

\* there is no other run
NoRun == [NewRun("api", {}, <<>>) EXCEPT !.pc = "absent"]

\* the running run, as a record of its variables
ThisRun ==
    [entry |-> entry, env |-> env, report_name |-> report_name, pc |-> pc,
     access_token |-> access_token, pbix_bytes |-> pbix_bytes, attempt |-> attempt,
     report_id |-> report_id, outcome |-> outcome, calls |-> calls,
     tokenResult |-> tokenResult, storeResult |-> storeResult,
     importResp |-> importResp, lastResp |-> lastResp, namesListed |-> namesListed]

Init ==
    /\ entry \in {"api", "cli"}
    /\ env \in SUBSET RequiredVars
    /\ report_name \in RequestNames
    /\ pc = IF entry = "cli" THEN "validate" ELSE "token"
    /\ access_token = None
    /\ pbix_bytes = None
    /\ attempt = 0
    /\ report_id = None
    /\ outcome = NoOutcome
    /\ calls = <<>>
    /\ tokenResult = NoTokenResult
    /\ storeResult = NoStoreResult
    /\ importResp = NoImportResp
    /\ lastResp = NoListing
    /\ namesListed = {}
    /\ cur = 1
    /\ saved = NoRun
    /\ switches = 0
    /\ overlapped = FALSE
    /\ platformOn = FALSE
    /\ workspace = <<>>
    /\ pending = <<>>
    /\ received = <<>>

----------------------------------------------------------------------------
(* Libraries the run calls into *)

\* msal: ConfidentialClientApplication(...).acquire_token_for_client(scopes).
\* With the credentials configured the provider answers with a token or
\* with an error description.  With TENANT_ID, CLIENT_ID or CLIENT_SECRET
\* unset (None) no token can be issued: the library raises, having reached
\* the provider or not, or the provider answers with an error.
AcquireTokenForClient(e) ==
    IF AuthVars \subseteq e
    THEN {[raised |-> FALSE, sent |-> TRUE, result |-> r] : r \in TokenResults}
    ELSE {[raised |-> TRUE, sent |-> s, result |-> NoTokenResult] : s \in BOOLEAN}
         \cup {[raised |-> FALSE, sent |-> TRUE, result |-> r] :
                  r \in {x \in TokenResults : ~x.has_token}}

\* azure.storage.blob: from_connection_string / get_container_client /
\* get_blob_client / download_blob().readall().  With a store variable unset
\* the client raises, having reached the store or not.
DownloadBlob(e) ==
    IF StoreVars \subseteq e
    THEN {[sent |-> TRUE, result |-> r] : r \in StoreResults}
    ELSE {[sent |-> s, result |-> [ok |-> FALSE, data |-> None, error |-> "ValueError"]] :
             s \in BOOLEAN}

Note(sent, call) == IF sent THEN Append(calls, call) ELSE calls

\* time.sleep(3): the time the run has slept up to and including its k-th event
Elapsed(k) == SleepSeconds * Cardinality({i \in 1..k : calls[i] = "sleep"})

\* how often the run has made the call `op` (or slept, for "sleep")
Count(op) == Cardinality({i \in DOMAIN calls : calls[i] = op})

----------------------------------------------------------------------------
(* The import request *)

Str_datasetDisplayName ==
    <<100, 97, 116, 97, 115, 101, 116, 68, 105, 115, 112, 108, 97, 121, 78, 97, 109, 101>>
Str_nameConflict == <<110, 97, 109, 101, 67, 111, 110, 102, 108, 105, 99, 116>>
Str_CreateOrOverwrite ==
    <<67, 114, 101, 97, 116, 101, 79, 114, 79, 118, 101, 114, 119, 114, 105, 116, 101>>

\* f"{POWERBI_API}/groups/{WORKSPACE_ID}/imports"
\* f"?datasetDisplayName={report_name}" f"&nameConflict=CreateOrOverwrite":
\* the part after '?'; the report name goes in as it is ('=' is 61, '&' is 38)
UploadUrl(name) ==
    Str_datasetDisplayName \o <<61>> \o name
        \o <<38>> \o Str_nameConflict \o <<61>> \o Str_CreateOrOverwrite

\* the first position of the character c in s, 0 when s has no c
IndexOf(s, c) ==
    IF \E i \in DOMAIN s : s[i] = c
    THEN MinOf({i \in DOMAIN s : s[i] = c})
    ELSE 0

\* requests.post(url, ...): what follows a '#' (35) is the URL's fragment, and
\* the request that leaves the process carries the path and the query only
RequestTarget(url) ==
    IF IndexOf(url, 35) = 0 THEN url ELSE SubSeq(url, 1, IndexOf(url, 35) - 1)

----------------------------------------------------------------------------
(* The platform: one workspace behind the import and the listing endpoint *)

RECURSIVE Split(_, _)
\* the pieces of s between the separators sep
Split(s, sep) ==
    IF IndexOf(s, sep) = 0
    THEN <<s>>
    ELSE <<SubSeq(s, 1, IndexOf(s, sep) - 1)>>
             \o Split(SubSeq(s, IndexOf(s, sep) + 1, Len(s)), sep)

\* the value of the first key=value pair of the query with that key, <<>> when
\* the query has none
QueryParam(query, key) ==
    LET pairs == Split(query, 38)
        hits  == {i \in DOMAIN pairs :
                     /\ Len(pairs[i]) > Len(key)
                     /\ SubSeq(pairs[i], 1, Len(key) + 1) = key \o <<61>>}
    IN  IF hits = {}
        THEN <<>>
        ELSE SubSeq(pairs[MinOf(hits)], Len(key) + 2, Len(pairs[MinOf(hits)]))


\* the workspace before the runs: empty, or holding one older report "sa"
InitialWorkspaces == {<<>>, <<[name |-> Name_sa, id |-> "r1", by |-> 0]>>}

\* the platform takes the import in (202) or turns it down (400); without a
\* workspace behind the endpoint every response is possible
ImportAnswers ==
    IF platformOn
    THEN {[status_code |-> 202, text |-> ""],
          [status_code |-> 400, text |-> "Invalid dataset"]}
    ELSE ImportResponses

\* the platform lists the workspace as it is; without a workspace behind the
\* endpoint every response is possible
ListingAnswers ==
    IF platformOn
    THEN {[ok |-> TRUE, body |-> "listing",
           value |-> [i \in DOMAIN workspace |->
                         [name |-> workspace[i].name, id |-> workspace[i].id]]]}
    ELSE ListingResponses

\* the import request arrives; an import taken in is processed later
Post(url, r) ==
    IF platformOn
    THEN /\ received' = Append(received, RequestTarget(url))
         /\ pending' =
               IF r.status_code = 202
               THEN Append(pending,
                           [name |-> QueryParam(RequestTarget(url), Str_datasetDisplayName),
                            nameConflict |-> QueryParam(RequestTarget(url), Str_nameConflict),
                            by |-> cur])
               ELSE pending
    ELSE UNCHANGED <<received, pending>>

----------------------------------------------------------------------------
(* main.py: the HTTP endpoint *)

api_get_access_token_Cached ==
    /\ entry = "api" /\ pc = "token"
    /\ IF saved.access_token # None
       THEN /\ access_token' = saved.access_token
            /\ pc' = "download"
            /\ UNCHANGED <<calls, tokenResult, outcome>>
       ELSE \E m \in AcquireTokenForClient(env) :
               /\ calls' = Note(m.sent, "token")
               /\ tokenResult' = m.result
               /\ IF ~HasAccessToken(m.result)
                  THEN /\ outcome' = Result("Rejected", "auth", 500,
                                            <<"Token error", m.result.error_description>>,
                                            None)
                       /\ pc' = "done"
                       /\ UNCHANGED access_token
                  ELSE /\ access_token' = m.result.access_token
                       /\ pc' = "download"
                       /\ UNCHANGED outcome
    /\ UNCHANGED <<entry, env, report_name, pbix_bytes, attempt, report_id,
                   storeResult, importResp, lastResp, namesListed>>
    /\ UNCHANGED others
\* get_access_token: a new ConfidentialClientApplication per call, then
\* acquire_token_for_client
api_get_access_token ==
    /\ entry = "api" /\ pc = "token"
    /\ \E m \in AcquireTokenForClient(env) :
          /\ calls' = Note(m.sent, "token")
          /\ tokenResult' = m.result
          /\ IF m.raised
             THEN /\ outcome' = Uncaught("auth", "ValueError")
                  /\ pc' = "done"
                  /\ UNCHANGED access_token
             ELSE IF ~HasAccessToken(m.result)
             THEN \* raise HTTPException(500, f"Token error: {error_description}")
                  /\ outcome' = Result("Rejected", "auth", 500,
                                       <<"Token error", m.result.error_description>>, None)
                  /\ pc' = "done"
                  /\ UNCHANGED access_token
             ELSE /\ access_token' = m.result.access_token
                  /\ pc' = "download"
                  /\ UNCHANGED outcome
    /\ UNCHANGED <<entry, env, report_name, pbix_bytes, attempt, report_id,
                   storeResult, importResp, lastResp, namesListed>>
    /\ UNCHANGED others

api_download_empty_pbix ==
    /\ entry = "api" /\ pc = "download"
    /\ \E d \in DownloadBlob(env) :
          /\ calls' = Note(d.sent, "fetch")
          /\ storeResult' = d.result
          /\ IF d.result.ok
             THEN /\ pbix_bytes' = d.result.data
                  /\ pc' = "upload"
                  /\ UNCHANGED outcome
             ELSE \* except Exception as e: raise HTTPException(500, ...)
                  /\ outcome' = Result("Rejected", "storage", 500,
                                       <<"Blob download failed", d.result.error>>, None)
                  /\ pc' = "done"
                  /\ UNCHANGED pbix_bytes
    /\ UNCHANGED <<entry, env, report_name, access_token, attempt, report_id,
                   tokenResult, importResp, lastResp, namesListed>>
    /\ UNCHANGED others

api_upload_RetryOnce ==
    /\ entry = "api" /\ pc = "upload"
    /\ \E r \in ImportAnswers :
          /\ calls' = Append(calls, "import")
          /\ importResp' = r
          /\ Post(UploadUrl(report_name), r)
          /\ IF r.status_code \notin AcceptedCodes /\ Count("import") = 0
             THEN UNCHANGED <<pc, outcome>>
             ELSE IF r.status_code \notin AcceptedCodes
             THEN /\ outcome' = Result("Rejected", "upload", r.status_code, <<r.text>>, None)
                  /\ pc' = "done"
             ELSE /\ pc' = "sleep"
                  /\ UNCHANGED outcome
    /\ UNCHANGED <<entry, env, report_name, access_token, pbix_bytes, attempt,
                   report_id, tokenResult, storeResult, lastResp, namesListed>>
    /\ UNCHANGED <<cur, saved, switches, overlapped, platformOn, workspace>>
\* upload_report, step 3: requests.post(upload_url, headers, files)
api_upload ==
    /\ entry = "api" /\ pc = "upload"
    /\ \E r \in ImportAnswers :
          /\ calls' = Append(calls, "import")
          /\ importResp' = r
          /\ Post(UploadUrl(report_name), r)
          /\ IF r.status_code \notin AcceptedCodes
             THEN \* raise HTTPException(resp.status_code, resp.text)
                  /\ outcome' = Result("Rejected", "upload", r.status_code, <<r.text>>, None)
                  /\ pc' = "done"
             ELSE /\ pc' = "sleep"
                  /\ UNCHANGED outcome
    /\ UNCHANGED <<entry, env, report_name, access_token, pbix_bytes, attempt,
                   report_id, tokenResult, storeResult, lastResp, namesListed>>
    /\ UNCHANGED <<cur, saved, switches, overlapped, platformOn, workspace>>

PollSleep_Skip ==
    /\ pc = "sleep"
    /\ pc' = "get"
    /\ UNCHANGED <<entry, env, report_name, access_token, pbix_bytes, attempt,
                   report_id, outcome, calls, tokenResult, storeResult, importResp,
                   lastResp, namesListed>>
    /\ UNCHANGED others

PollSleep_Hang ==
    /\ pc = "sleep"
    /\ UNCHANGED vars
\* fetch_report_id, one iteration, first half: time.sleep(3)
PollSleep ==
    /\ pc = "sleep"
    /\ calls' = Append(calls, "sleep")
    /\ pc' = "get"
    /\ UNCHANGED <<entry, env, report_name, access_token, pbix_bytes, attempt,
                   report_id, outcome, tokenResult, storeResult, importResp,
                   lastResp, namesListed>>
    /\ UNCHANGED others

\* fetch_report_id, one iteration, second half: requests.get, then the scan
\* of resp.json().get("value", []); after the last iteration, return None
PollGet ==
    /\ pc = "get"
    /\ \E resp \in ListingAnswers :
          /\ calls' = Append(calls, "list")
          /\ lastResp' = resp
          /\ namesListed' = IF resp.ok
                            THEN namesListed \cup {ValueOf(resp)[i].name : i \in DOMAIN ValueOf(resp)}
                            ELSE namesListed
          /\ IF ListingRaises(resp)
             THEN \* resp.json() raises; nothing on the way up catches it
                  /\ outcome' = Uncaught("confirm", "JSONDecodeError")
                  /\ pc' = "done"
                  /\ UNCHANGED <<attempt, report_id>>
             ELSE LET found == IF resp.ok THEN ScanReports(ValueOf(resp), report_name)
                                          ELSE None
                  IN  IF found # None
                      THEN /\ report_id' = found
                           /\ pc' = "return"
                           /\ UNCHANGED <<attempt, outcome>>
                      ELSE /\ attempt' = attempt + 1
                           /\ pc' = IF attempt + 1 < MaxAttempts THEN "sleep" ELSE "return"
                           /\ UNCHANGED <<report_id, outcome>>
    /\ UNCHANGED <<entry, env, report_name, access_token, pbix_bytes,
                   tokenResult, storeResult, importResp>>
    /\ UNCHANGED others

api_fetch_report_id_sleep == entry = "api" /\ PollSleep

api_fetch_report_id_get == entry = "api" /\ PollGet

\* upload_report, step 4 and the return: UploadResponse(message=..., report_id=...)
api_respond ==
    /\ entry = "api" /\ pc = "return"
    /\ outcome' = IF report_id # None
                  THEN Result("Confirmed", "confirm", 200,
                              <<"Report uploaded successfully">>, report_id)
                  ELSE Result("AcceptedUnconfirmed", "confirm", 200,
                              <<"Upload accepted but report ID not yet confirmed">>, None)
    /\ pc' = "done"
    /\ UNCHANGED <<entry, env, report_name, access_token, pbix_bytes, attempt,
                   report_id, calls, tokenResult, storeResult, importResp,
                   lastResp, namesListed>>
    /\ UNCHANGED others

----------------------------------------------------------------------------
(* upload_report.py: the command line *)

\* main: the check of the six environment variables
cli_validate_env ==
    /\ entry = "cli" /\ pc = "validate"
    /\ IF Missing(env) # {}
       THEN \* print("ERROR: Missing environment variables:", ...); sys.exit(1)
            /\ outcome' = Result("Rejected", "config", 1,
                                 <<"Missing environment variables", Missing(env)>>, None)
            /\ pc' = "done"
       ELSE /\ pc' = "token"
            /\ UNCHANGED outcome
    /\ UNCHANGED <<entry, env, report_name, access_token, pbix_bytes, attempt,
                   report_id, calls, tokenResult, storeResult, importResp,
                   lastResp, namesListed>>
    /\ UNCHANGED others

cli_get_access_token ==
    /\ entry = "cli" /\ pc = "token"
    /\ \E m \in AcquireTokenForClient(env) :
          /\ calls' = Note(m.sent, "token")
          /\ tokenResult' = m.result
          /\ IF m.raised
             THEN /\ outcome' = Uncaught("auth", "ValueError")
                  /\ pc' = "done"
                  /\ UNCHANGED access_token
             ELSE IF ~HasAccessToken(m.result)
             THEN \* print("ERROR: Failed to acquire token:", ...); sys.exit(1)
                  /\ outcome' = Result("Rejected", "auth", 1,
                                       <<"Failed to acquire token", m.result.error_description>>,
                                       None)
                  /\ pc' = "done"
                  /\ UNCHANGED access_token
             ELSE /\ access_token' = m.result.access_token
                  /\ pc' = "download"
                  /\ UNCHANGED outcome
    /\ UNCHANGED <<entry, env, report_name, pbix_bytes, attempt, report_id,
                   storeResult, importResp, lastResp, namesListed>>
    /\ UNCHANGED others

\* no try/except here: a store error leaves main() as the store's exception
cli_download_empty_pbix ==
    /\ entry = "cli" /\ pc = "download"
    /\ \E d \in DownloadBlob(env) :
          /\ calls' = Note(d.sent, "fetch")
          /\ storeResult' = d.result
          /\ IF d.result.ok
             THEN /\ pbix_bytes' = d.result.data
                  /\ pc' = "upload"
                  /\ UNCHANGED outcome
             ELSE /\ outcome' = Uncaught("storage", d.result.error)
                  /\ pc' = "done"
                  /\ UNCHANGED pbix_bytes
    /\ UNCHANGED <<entry, env, report_name, access_token, attempt, report_id,
                   tokenResult, importResp, lastResp, namesListed>>
    /\ UNCHANGED others

cli_upload_to_workspace ==
    /\ entry = "cli" /\ pc = "upload"
    /\ \E r \in ImportAnswers :
          /\ calls' = Append(calls, "import")
          /\ importResp' = r
          /\ Post(UploadUrl(report_name), r)
          /\ IF r.status_code \notin AcceptedCodes
             THEN \* print(f"ERROR: Upload failed ({status_code}): {text}"); sys.exit(1)
                  /\ outcome' = Result("Rejected", "upload", 1,
                                       <<"Upload failed", r.status_code, r.text>>, None)
                  /\ pc' = "done"
             ELSE /\ pc' = "sleep"
                  /\ UNCHANGED outcome
    /\ UNCHANGED <<entry, env, report_name, access_token, pbix_bytes, attempt,
                   report_id, tokenResult, storeResult, lastResp, namesListed>>
    /\ UNCHANGED <<cur, saved, switches, overlapped, platformOn, workspace>>

cli_fetch_report_id_sleep_Skip == entry = "cli" /\ PollSleep_Skip
cli_fetch_report_id_sleep == entry = "cli" /\ PollSleep

cli_fetch_report_id_get == entry = "cli" /\ PollGet

\* main: the two closing branches; main() returns, the process exits 0
cli_report ==
    /\ entry = "cli" /\ pc = "return"
    /\ outcome' = IF report_id # None
                  THEN Result("Confirmed", "confirm", 0, <<"Success!">>, report_id)
                  ELSE Result("AcceptedUnconfirmed", "confirm", 0,
                              <<"Upload succeeded but report ID could not be confirmed">>, None)
    /\ pc' = "done"
    /\ UNCHANGED <<entry, env, report_name, access_token, pbix_bytes, attempt,
                   report_id, calls, tokenResult, storeResult, importResp,
                   lastResp, namesListed>>
    /\ UNCHANGED others

----------------------------------------------------------------------------

Next ==
    \/ api_get_access_token
    \/ api_download_empty_pbix
    \/ api_upload
    \/ api_fetch_report_id_sleep
    \/ api_fetch_report_id_get
    \/ api_respond
    \/ cli_validate_env
    \/ cli_get_access_token
    \/ cli_download_empty_pbix
    \/ cli_upload_to_workspace
    \/ cli_fetch_report_id_sleep
    \/ cli_fetch_report_id_get
    \/ cli_report

Spec == Init /\ [][Next]_vars

\* every call of the run is a blocking call that returns, and the process runs
FairSpec == Spec /\ WF_vars(Next)

----------------------------------------------------------------------------
(* Two runs against one workspace *)

\* the platform processes the oldest import it has taken in: under
\* CreateOrOverwrite the reports of that name (letter case apart) give way to
\* the new one; without a policy the new report is added to them
Materialize ==
    /\ platformOn /\ pending # <<>>
    /\ LET imp == Head(pending)
           Other(rep) == Lower(rep.name) # Lower(imp.name)
           kept == IF imp.nameConflict = Str_CreateOrOverwrite
                   THEN SelectSeq(workspace, Other)
                   ELSE workspace
       IN  workspace' = Append(kept, [name |-> imp.name, id |-> ImportedId(imp.by),
                                      by |-> imp.by])
    /\ pending' = Tail(pending)
    /\ UNCHANGED <<entry, env, report_name, pc, access_token, pbix_bytes, attempt,
                   report_id, outcome, calls, tokenResult, storeResult, importResp,
                   lastResp, namesListed>>
    /\ UNCHANGED <<cur, saved, switches, overlapped, platformOn, received>>

\* a run that has moved and has not finished
UnderWay(run) ==
    run.pc \notin {"done", NewRun(run.entry, run.env, run.report_name).pc}

\* the processor leaves the running run where it is and takes up the other:
\* two requests served by two workers, or two processes of the command line
Switch ==
    /\ platformOn /\ switches < MaxSwitches
    /\ saved.pc \notin {"absent", "done"}
    /\ cur' = 3 - cur
    /\ saved' = ThisRun
    /\ entry' = saved.entry
    /\ env' = saved.env
    /\ report_name' = saved.report_name
    /\ pc' = saved.pc
    /\ access_token' = saved.access_token
    /\ pbix_bytes' = saved.pbix_bytes
    /\ attempt' = saved.attempt
    /\ report_id' = saved.report_id
    /\ outcome' = saved.outcome
    /\ calls' = saved.calls
    /\ tokenResult' = saved.tokenResult
    /\ storeResult' = saved.storeResult
    /\ importResp' = saved.importResp
    /\ lastResp' = saved.lastResp
    /\ namesListed' = saved.namesListed
    /\ switches' = switches + 1
    /\ overlapped' = (overlapped \/ UnderWay(ThisRun))
    /\ UNCHANGED <<platformOn, workspace, pending, received>>

\* run 1 is a request to the HTTP endpoint, run 2 another request or a process
\* of the command line; both have the six configuration variables set
TwoRunsInit ==
    /\ entry = "api"
    /\ env = RequiredVars
    /\ report_name \in UploadNames
    /\ pc = IF entry = "cli" THEN "validate" ELSE "token"
    /\ access_token = None
    /\ pbix_bytes = None
    /\ attempt = 0
    /\ report_id = None
    /\ outcome = NoOutcome
    /\ calls = <<>>
    /\ tokenResult = NoTokenResult
    /\ storeResult = NoStoreResult
    /\ importResp = NoImportResp
    /\ lastResp = NoListing
    /\ namesListed = {}
    /\ cur = 1
    /\ saved \in {NewRun(e, RequiredVars, n) : e \in {"api", "cli"}, n \in UploadNames}
    /\ switches = 0
    /\ overlapped = FALSE
    /\ platformOn = TRUE
    /\ workspace \in InitialWorkspaces
    /\ pending = <<>>
    /\ received = <<>>

TwoRunsNext ==
    \/ api_get_access_token
    \/ api_download_empty_pbix
    \/ api_upload
    \/ api_fetch_report_id_sleep
    \/ api_fetch_report_id_get
    \/ api_respond
    \/ cli_validate_env
    \/ cli_get_access_token
    \/ cli_download_empty_pbix
    \/ cli_upload_to_workspace
    \/ cli_fetch_report_id_sleep
    \/ cli_fetch_report_id_get
    \/ cli_report
    \/ Switch
    \/ Materialize

TwoRunsSpec == TwoRunsInit /\ [][TwoRunsNext]_vars

----------------------------------------------------------------------------
(* Vocabulary of the properties *)

\* two names are equal up to letter case (stated without Lower)
SameIgnoringCase(a, b) ==
    /\ Len(a) = Len(b)
    /\ \A i \in DOMAIN a :
          \/ a[i] = b[i]
          \/ a[i] \in 65..90 /\ b[i] = a[i] + 32
          \/ b[i] \in 65..90 /\ a[i] = b[i] + 32

\* the ids of the reports of a listing response that carry the requested name
MatchingIds(resp) ==
    {resp.value[i].id : i \in {j \in DOMAIN resp.value :
                                  SameIgnoringCase(resp.value[j].name, report_name)}}

\* the latest listing response is a listing that holds the requested report
LastListsReport ==
    lastResp.ok /\ lastResp.body = "listing" /\ MatchingIds(lastResp) # {}

ImportAccepted == importResp.status_code \in {200, 201, 202}
ImportAnswered == importResp # NoImportResp

\* the provider answered, and its answer holds no access token
TokenRefused == tokenResult # NoTokenResult /\ ~tokenResult.has_token

\* the store answered the fetch with an error
StoreFailed == storeResult # NoStoreResult /\ ~storeResult.ok

----------------------------------------------------------------------------
(* C1: every run ends in exactly one outcome, and that outcome is one of   *)
(* Confirmed(reportId), AcceptedUnconfirmed or Rejected(reason), whatever  *)
(* the identity provider, the object store, the import endpoint and the    *)
(* listing endpoint answer (malformed and failing listings included).      *)
C1_OutcomeClassified ==
    (pc = "done" /\ Missing(env) = {}) =>
        outcome.kind \in {"Confirmed", "AcceptedUnconfirmed", "Rejected"}

(* C2: a run that reaches confirmation makes at least 1 and at most 8      *)
(* listing calls, whatever the listing responses are: never more than 8,   *)
(* and at least 1 once fetch_report_id has ended (returned or raised).     *)
C2_ListingCallsBounded ==
    /\ Count("list") <= 8
    /\ (pc = "return" \/ (pc = "done" /\ ImportAccepted)) => Count("list") >= 1

C2_Witness ==
    pc = "return" /\ Count("list") = 8 /\ report_id # None

(* C3: the first listing response that holds a report whose name equals    *)
(* the requested name up to letter case ends fetch_report_id: the id       *)
(* returned is the id of such a report, that listing call is the last      *)
(* event of the run (no listing call, no delay after it), and the run ends *)
(* Confirmed with that id; a match on the first attempt means exactly one  *)
(* listing call.                                                           *)
C3_ReturnsOnFirstMatch ==
    LastListsReport =>
        /\ pc \in {"return", "done"}
        /\ report_id \in MatchingIds(lastResp)
        /\ calls[Len(calls)] = "list"
        /\ Count("list") = attempt + 1
        /\ pc = "done" => outcome.kind = "Confirmed" /\ outcome.report_id = report_id

C3_Witness ==
    /\ pc = "done" /\ LastListsReport
    /\ Count("list") = 1
    /\ lastResp.value[1].name # report_name
    /\ outcome.kind = "Confirmed"

(* C4: a listing call that fails (non-success response) on attempt k is    *)
(* "not found yet": for k < 8 the loop goes on to attempt k+1, after       *)
(* attempt 8 fetch_report_id returns, and the run has no outcome yet (it   *)
(* has not failed); fetch_report_id returns "not found" only after 8       *)
(* listing calls.                                                          *)
C4_FailedListingStep ==
    (pc = "get" /\ ~lastResp'.ok) =>
        /\ attempt' = attempt + 1
        /\ outcome' = NoOutcome
        /\ pc' = IF attempt + 1 < 8 THEN "sleep" ELSE "return"
        /\ report_id' = None

C4_NotFoundOnlyWhenExhausted ==
    (pc = "return" /\ report_id = None) => Count("list") = 8

C4_FailedListingIsNotFoundYet ==
    [][C4_FailedListingStep]_vars /\ []C4_NotFoundOnlyWhenExhausted

C4_Witness ==
    pc = "sleep" /\ attempt = 3 /\ lastResp.body = "error"

(* C5: an accepted upload followed by 8 listing attempts none of which     *)
(* shows the requested name (up to letter case) ends AcceptedUnconfirmed,  *)
(* without a report id and without an error or exception for the caller.   *)
C5_UnconfirmedAfterEightMisses ==
    (/\ pc = "done" /\ ImportAccepted
     /\ Count("list") = 8
     /\ \A n \in namesListed : ~SameIgnoringCase(n, report_name))
    => outcome.kind = "AcceptedUnconfirmed" /\ outcome.report_id = None

(* C6: the import response is classified by its status code alone.  200,  *)
(* 201 and 202 all take the run to confirmation in the same way (same next *)
(* position, nothing else changed); any other status ends the run as an    *)
(* upload rejection that carries the status code and the response body as  *)
(* received, with no listing call and no delay in the run.                 *)
C6_AcceptedStep ==
    (pc = "upload" /\ importResp'.status_code \in {200, 201, 202}) =>
        /\ pc' = "sleep"
        /\ calls' = Append(calls, "import")
        /\ UNCHANGED <<outcome, attempt, report_id, access_token, pbix_bytes>>

C6_RejectedState ==
    (ImportAnswered /\ ~ImportAccepted) =>
        /\ pc = "done"
        /\ outcome.kind = "Rejected" /\ outcome.stage = "upload"
        /\ entry = "api" => /\ outcome.code = importResp.status_code
                            /\ outcome.detail = <<importResp.text>>
        /\ entry = "cli" => /\ outcome.detail[2] = importResp.status_code
                            /\ outcome.detail[3] = importResp.text
        /\ Count("list") = 0 /\ Count("sleep") = 0

C6_ImportClassifiedByStatus ==
    [][C6_AcceptedStep]_vars /\ []C6_RejectedState

C6_Witness ==
    /\ pc = "done"
    /\ importResp = [status_code |-> 400, text |-> "Invalid dataset"]
    /\ outcome.kind = "Rejected" /\ outcome.stage = "upload"

(* C7: when the identity provider's response holds no access token, the    *)
(* run has failed with an authentication error that carries the provider's *)
(* error description, and the run makes no call to the object store, the   *)
(* import endpoint or the listing endpoint.                                *)
C7_NoTokenStopsRun ==
    TokenRefused =>
        /\ pc = "done"
        /\ outcome.kind = "Rejected" /\ outcome.stage = "auth"
        /\ outcome.detail[2] = tokenResult.error_description
        /\ Count("fetch") = 0 /\ Count("import") = 0 /\ Count("list") = 0

C7_Witness ==
    /\ TokenRefused /\ tokenResult.error_description = "invalid_client"
    /\ Missing(env) = {}
    /\ pc = "done" /\ outcome.stage = "auth"

(* C8: any error of the object store while fetching the artifact becomes a *)
(* StorageError outcome that carries the underlying cause and ends the     *)
(* run, with no import request and no listing call, at both entry points.  *)
C8_StoreErrorWrapped ==
    StoreFailed =>
        /\ pc = "done"
        /\ outcome.kind = "Rejected" /\ outcome.stage = "storage"
        /\ outcome.detail[Len(outcome.detail)] = storeResult.error
        /\ Count("import") = 0 /\ Count("list") = 0

(* C9: only the Confirmer retries: a run makes at most one token request,  *)
(* at most one artifact fetch and at most one import POST, whichever stage *)
(* fails.                                                                  *)
C9_NoStageRetried ==
    Count("token") <= 1 /\ Count("fetch") <= 1 /\ Count("import") <= 1

C9_Witness ==
    /\ pc = "done" /\ outcome.kind = "Rejected" /\ outcome.stage = "upload"
    /\ Count("token") = 1 /\ Count("fetch") = 1 /\ Count("import") = 1

(* C10: with any of the six configuration values missing, the run ends in  *)
(* a configuration error before the core runs: it makes no token request,  *)
(* no artifact fetch, no import request and no listing call, and the only  *)
(* way it ends is the configuration error; at both entry points.           *)
C10_MissingConfigStopsBeforeCore ==
    Missing(env) # {} =>
        /\ calls = <<>>
        /\ pc = "done" => outcome.kind = "Rejected" /\ outcome.stage = "config"

(* C11: consecutive listing calls of one confirmation are separated by     *)
(* exactly one delay of 3 time units: between two listing calls with no    *)
(* listing call in between lies exactly one sleep, and the time slept      *)
(* between them is 3.                                                      *)
ListCalls == {i \in DOMAIN calls : calls[i] = "list"}

C11_OneDelayBetweenListings ==
    \A i, j \in ListCalls :
        (i < j /\ ~\E k \in ListCalls : i < k /\ k < j) =>
            /\ j = i + 2 /\ calls[i + 1] = "sleep"
            /\ Elapsed(j) - Elapsed(i) = 3

C11_Witness ==
    Count("list") = 8 /\ pc = "return"

(* C12: the delay the Confirmer accumulates in a run, the sleep before the *)
(* first listing call included, never exceeds 8 x 3 = 24 time units; when  *)
(* fetch_report_id has ended it is 3 per listing call made, and it is 24   *)
(* exactly when all 8 attempts were used.                                  *)
TotalDelay == Elapsed(Len(calls))

C12_DelayBounded ==
    /\ TotalDelay <= 24
    /\ pc \in {"return", "done"} =>
          /\ TotalDelay = 3 * Count("list")
          /\ TotalDelay = 24 <=> Count("list") = 8

C12_Witness ==
    pc = "done" /\ outcome.kind = "AcceptedUnconfirmed" /\ TotalDelay = 24

(* C16: every run, once started, eventually reaches a terminal state, each *)
(* external call being assumed to return: the polling loop ends and no     *)
(* state leaves the run unable to progress.                                *)
C16_RunTerminates == <>(pc = "done")

C16_Witness ==
    pc = "done" /\ attempt = 8 /\ outcome.kind = "AcceptedUnconfirmed"

(* C17: the calls of a run follow Start -> TokenAcquired -> ArtifactFetched *)
(* -> Uploaded -> confirmation: the artifact fetch comes only after a      *)
(* token was obtained, the import POST only after the artifact was         *)
(* fetched, listing calls (and their delays) only after the import was     *)
(* accepted; a failed run makes no further call and its outcome never      *)
(* changes, so it never becomes Confirmed or Unconfirmed.                  *)
StageOf(call) ==
    CASE call = "token"  -> 1
      [] call = "fetch"  -> 2
      [] call = "import" -> 3
      [] OTHER           -> 4

RunFailed == outcome.kind \in {"Rejected", "Uncaught"}

C17_StagesInOrder ==
    /\ \A i, j \in DOMAIN calls : i < j => StageOf(calls[i]) <= StageOf(calls[j])
    /\ Count("fetch") > 0 => tokenResult.has_token /\ Count("token") = 1
    /\ Count("import") > 0 => storeResult.ok /\ Count("fetch") = 1
    /\ Count("list") + Count("sleep") > 0 => ImportAccepted /\ Count("import") = 1
    /\ outcome.kind \in {"Confirmed", "AcceptedUnconfirmed"} =>
          ImportAccepted /\ Count("list") >= 1

C17_FailedAbsorbing ==
    RunFailed => calls' = calls /\ outcome' = outcome /\ pc' = "done"

C17_LinearWithAbsorbingFailure ==
    []C17_StagesInOrder /\ [][C17_FailedAbsorbing]_vars

C17_Witness ==
    /\ pc = "done" /\ outcome.kind = "Confirmed"
    /\ Count("list") = 2
    /\ calls = <<"token", "fetch", "import", "sleep", "list", "sleep", "list">>

(* C18: when a listing holds several reports whose names equal the         *)
(* requested name up to letter case, fetch_report_id returns the id of the *)
(* first of them in listing order, from the earliest listing that holds    *)
(* any match (no earlier listing of the run showed the name); a report     *)
(* whose name differs other than by letter case is never the one returned. *)
MatchIndexes(resp) ==
    {i \in DOMAIN resp.value : SameIgnoringCase(resp.value[i].name, report_name)}

C18_FirstMatchInListingOrder ==
    report_id # None =>
        /\ lastResp.ok /\ lastResp.body = "listing"
        /\ MatchIndexes(lastResp) # {}
        /\ \E i \in MatchIndexes(lastResp) :
              /\ \A k \in MatchIndexes(lastResp) : i <= k
              /\ report_id = lastResp.value[i].id
        /\ Count("list") = attempt + 1

C18_EarliestListing ==
    (pc = "get" /\ \E n \in namesListed : SameIgnoringCase(n, report_name)) => FALSE

C18_FirstMatchOfEarliestListing ==
    C18_FirstMatchInListingOrder /\ C18_EarliestListing

C18_Witness ==
    /\ pc = "done" /\ outcome.kind = "Confirmed"
    /\ Cardinality(MatchIndexes(lastResp)) = 2
    /\ lastResp.value[1].id # lastResp.value[2].id
    /\ lastResp.value[1].name # lastResp.value[2].name
    /\ outcome.report_id = lastResp.value[1].id

(* C19: the two entry points are equivalent on the core workflow.  With a  *)
(* complete configuration, the calls and delays of a run and the class of  *)
(* its outcome (Confirmed with an id, Unconfirmed, Failed at a stage) are  *)
(* one function of the responses received, the same for the HTTP endpoint  *)
(* and for the command line: nothing below mentions the entry point.       *)
OutcomeClass(o) ==
    CASE o.kind = "Confirmed"           -> <<"Confirmed", o.report_id>>
      [] o.kind = "AcceptedUnconfirmed" -> <<"Unconfirmed", None>>
      [] o.kind \in {"Rejected", "Uncaught"} -> <<"Failed", o.stage>>
      [] OTHER                          -> <<"none", None>>

\* a listing response after which the confirmation goes on: no match, no error
\* in reading it
ListingMiss(resp) ==
    \/ ~resp.ok
    \/ resp.body = "no_value"
    \/ resp.body = "listing" /\ MatchIndexes(resp) = {}

Polls(n) == [i \in 1..(2 * n) |-> IF i % 2 = 1 THEN "sleep" ELSE "list"]

ExpectedClass ==
    IF ~tokenResult.has_token THEN <<"Failed", "auth">>
    ELSE IF ~storeResult.ok THEN <<"Failed", "storage">>
    ELSE IF ~ImportAccepted THEN <<"Failed", "upload">>
    ELSE IF lastResp.ok /\ lastResp.body = "not_json" THEN <<"Failed", "confirm">>
    ELSE IF ListingMiss(lastResp) THEN <<"Unconfirmed", None>>
    ELSE <<"Confirmed", lastResp.value[MinOf(MatchIndexes(lastResp))].id>>

ExpectedCalls ==
    IF ~tokenResult.has_token THEN <<"token">>
    ELSE IF ~storeResult.ok THEN <<"token", "fetch">>
    ELSE IF ~ImportAccepted THEN <<"token", "fetch", "import">>
    ELSE <<"token", "fetch", "import">> \o Polls(Count("list"))

C19_FinishedRun ==
    (pc = "done" /\ Missing(env) = {}) =>
        /\ OutcomeClass(outcome) = ExpectedClass
        /\ calls = ExpectedCalls
        /\ ImportAccepted =>
              /\ Count("list") \in 1..8
              /\ Count("list") < 8 => ~ListingMiss(lastResp)

C19_MissStep ==
    (pc = "get" /\ Missing(env) = {} /\ ListingMiss(lastResp')) =>
        pc' = IF Count("list") + 1 < 8 THEN "sleep" ELSE "return"

C19_EntryPointsEquivalent ==
    []C19_FinishedRun /\ [][C19_MissStep]_vars

C19_Witness ==
    /\ pc = "done" /\ entry = "cli" /\ Missing(env) = {}
    /\ OutcomeClass(outcome) = <<"Failed", "storage">>

(* C13: every import request carries nameConflict=CreateOrOverwrite, and   *)
(* with a platform that applies the policy two sequential runs uploading   *)
(* one report name leave one report for the two imports and no two reports *)
(* of one name in the workspace.                                           *)
CarriesPolicy(query) == QueryParam(query, Str_nameConflict) = Str_CreateOrOverwrite

C13_EveryImportCarriesPolicy == \A i \in DOMAIN received : CarriesPolicy(received[i])

Imported(run) == run.importResp.status_code \in AcceptedCodes

\* both runs have ended, one after the other, with the same report name, both
\* imports were taken in and the platform has processed them
SequentialPair ==
    /\ pc = "done" /\ saved.pc = "done" /\ ~overlapped
    /\ report_name = saved.report_name
    /\ Imported(ThisRun) /\ Imported(saved)
    /\ pending = <<>>

C13_SequentialRunsLeaveOne ==
    SequentialPair =>
        /\ Cardinality({i \in DOMAIN workspace : workspace[i].by # 0}) = 1
        /\ \A i, j \in DOMAIN workspace :
              SameIgnoringCase(workspace[i].name, workspace[j].name) => i = j

C13_OverwriteIdempotent == C13_EveryImportCarriesPolicy /\ C13_SequentialRunsLeaveOne

\* the same for report names without '#': the request carries the policy and
\* the second import replaces the first
C13_HoldsWithoutHash ==
    /\ \A i \in DOMAIN received :
          QueryParam(received[i], Str_datasetDisplayName) \in RequestNames
              => CarriesPolicy(received[i])
    /\ (SequentialPair /\ report_name \in RequestNames) =>
          /\ Cardinality({i \in DOMAIN workspace : workspace[i].by # 0}) = 1
          /\ Cardinality(DOMAIN workspace) = 1

C13_HashPairDone == SequentialPair /\ report_name = Name_SHash

(* C14: concurrent runs are independent.  No step of one run changes the   *)
(* other, the token a run holds is the one its own request to the identity *)
(* provider returned, and under every interleaving a finished run has      *)
(* issued the calls and reached the outcome that its own responses         *)
(* determine for a run alone (the function of C19).                        *)
OwnToken(run) ==
    run.access_token # None =>
        /\ run.tokenResult.has_token
        /\ run.access_token = run.tokenResult.access_token
        /\ Cardinality({i \in DOMAIN run.calls : run.calls[i] = "token"}) = 1

ListCount(run) == Cardinality({i \in DOMAIN run.calls : run.calls[i] = "list"})

Matches(run) ==
    {i \in DOMAIN run.lastResp.value :
        SameIgnoringCase(run.lastResp.value[i].name, run.report_name)}

SoloClass(run) ==
    IF ~run.tokenResult.has_token THEN <<"Failed", "auth">>
    ELSE IF ~run.storeResult.ok THEN <<"Failed", "storage">>
    ELSE IF ~Imported(run) THEN <<"Failed", "upload">>
    ELSE IF run.lastResp.ok /\ run.lastResp.body = "not_json" THEN <<"Failed", "confirm">>
    ELSE IF ~run.lastResp.ok \/ run.lastResp.body = "no_value" \/ Matches(run) = {}
         THEN <<"Unconfirmed", None>>
    ELSE <<"Confirmed", run.lastResp.value[MinOf(Matches(run))].id>>

SoloCalls(run) ==
    IF ~run.tokenResult.has_token THEN <<"token">>
    ELSE IF ~run.storeResult.ok THEN <<"token", "fetch">>
    ELSE IF ~Imported(run) THEN <<"token", "fetch", "import">>
    ELSE <<"token", "fetch", "import">> \o Polls(ListCount(run))

AsAlone(run) ==
    run.pc = "done" =>
        /\ OutcomeClass(run.outcome) = SoloClass(run)
        /\ run.calls = SoloCalls(run)
        /\ Imported(run) =>
              /\ ListCount(run) \in 1..8
              /\ ListCount(run) < 8 => SoloClass(run)[1] \in {"Confirmed", "Failed"}

C14_EachRunAsAlone == \A run \in {ThisRun, saved} : OwnToken(run) /\ AsAlone(run)

C14_NoSharedState ==
    /\ cur' = cur => saved' = saved
    /\ cur' # cur => saved' = ThisRun /\ ThisRun' = saved
    /\ workspace' # workspace => ThisRun' = ThisRun

C14_RunsIndependent == []C14_EachRunAsAlone /\ [][C14_NoSharedState]_vars

C14_Witness ==
    /\ pc = "done" /\ saved.pc = "done" /\ overlapped
    /\ outcome.kind = "Confirmed" /\ saved.outcome.kind = "Confirmed"
    /\ access_token # saved.access_token

\* a run alone: the function above is the function of C19
C14_SoloIsC19 ==
    /\ SoloClass(ThisRun) = ExpectedClass
    /\ SoloCalls(ThisRun) = ExpectedCalls

(* C15: a run ends Confirmed(reportId) only with the id of the report that *)
(* its own import became, never with the id of a report that was in the    *)
(* workspace before, or that another run's import became.                  *)
ConfirmedOwn(run, k) ==
    run.outcome.kind = "Confirmed" => run.outcome.report_id = ImportedId(k)

C15_ConfirmedIsOwnImport == ConfirmedOwn(ThisRun, cur) /\ ConfirmedOwn(saved, 3 - cur)

\* the two ways it fails: an older report, and the other run's report
C15_NeverOlderReport ==
    \A run \in {ThisRun, saved} :
        run.outcome.kind = "Confirmed" => run.outcome.report_id # "r1"

C15_NeverOtherRunsReport ==
    /\ outcome.kind = "Confirmed" => outcome.report_id # ImportedId(3 - cur)
    /\ saved.outcome.kind = "Confirmed" => saved.outcome.report_id # ImportedId(cur)

====
